---- MODULE Spec2Model ----
(***************************************************************************)
(* Walk-forward backtesting of mmf_sa.models.abstract_model                *)
(* (ForecastingRegressor.__init__, backtest, calculate_metrics).           *)
(*                                                                         *)
(* Dates are day numbers.  A row of the Series Table is represented by its *)
(* date (the only column backtest reads); the target values, the forecast, *)
(* the metric value and the pickled model are opaque to backtest and are   *)
(* not represented.  The monthly calendar has months of MonthLen days, the *)
(* last day of each month being its month end.                             *)
(*                                                                         *)
(* The second part models func_create_endpoint of the TimeGPT example      *)
(* notebook (01_timegpt_load_inference.py): the creation or the update of  *)
(* a serving endpoint and the polling loop that waits for the new config.  *)
(* Waiting time is counted in seconds, as total_wait counts it.            *)
(***************************************************************************)
EXTENDS Integers, Sequences, FiniteSets, TLC

VARIABLES
    callerDf,      \* the caller's DataFrame: a sequence of row dates, in the caller's order
    passedDf,      \* the rows of the caller's DataFrame as they were when backtest was called
    start,         \* argument start
    strideArg,     \* argument stride (None when omitted)
    params,        \* self.params: freq, prediction_length, metric, stride
    overridden,    \* TRUE when the concrete model overrides calculate_metrics
    pc,            \* position of the run
    stride,        \* local stride (lines 65-66)
    df,            \* local df: the sorted copy (line 72)
    end_date,      \* local end_date (line 73)
    curr_date,     \* local curr_date, the cursor (lines 74, 111)
    results,       \* local results (lines 77, 107, 109)
    hist_df,       \* local _df (line 81)
    actuals_df,    \* local actuals_df (lines 82-87)
    metrics,       \* local metrics (line 93)
    res_df,        \* the returned DataFrame (lines 113-124)
    error,         \* the exception that left backtest, "none" while there is none
    predictCalls,  \* the calls self.predict has received: cursor, history, actual
    evaluated,     \* what each completed calculate_metrics call returned
    ep_pc,         \* position of func_create_endpoint, "idle" while it is not called
    ep_r,          \* func_create_endpoint: r, the last GET response (status code, pending_config in it)
    ep_re,         \* func_create_endpoint: re, the status code of the POST or PUT response
    retry,         \* func_create_endpoint: local retry
    total_wait     \* func_create_endpoint: local total_wait, in seconds

backtestVars == <<callerDf, passedDf, start, strideArg, params, overridden, pc, stride, df, end_date,
          curr_date, results, hist_df, actuals_df, metrics, res_df, error,
          predictCalls, evaluated>>

endpointVars == <<ep_pc, ep_r, ep_re, retry, total_wait>>

vars == <<backtestVars, endpointVars>>

inputs == <<callerDf, passedDf, start, strideArg, params, overridden>>

(***************************************************************************)
(* Bounds of the model.                                                    *)
(***************************************************************************)
MaxDate == 3
MaxRows == 2
MaxStart == 1
MaxStride == 2
MaxH == 2
MaxFan == 2
MonthLen == 2

\* Windows after which a run whose cursor does not advance (stride <= 0) is
\* cut off; a run with a positive stride is never cut off.
MaxLoops == 2

\* An optional integer is <<>> (None) or <<v>>.
None == <<>>
Some(v) == <<v>>
Dates == 0..MaxDate
Strides == 0..MaxStride
Horizons == 0..MaxH
GroupId == "g"

\* params.get("stride", 7)
DefaultStride == 7

SupportedMetrics == {"smape", "mape", "mae", "mse", "rmse"}
\* The values of params["metric"] the regressor is constructed with: a
\* supported kind and an unsupported one.
MetricKinds == {"rmse", "foo"}
Freqs == {"D", "M"}

(***************************************************************************)
(* Offsets (__init__, lines 19-27, and backtest, lines 67-71).             *)
(***************************************************************************)
\* params["freq"].upper()[0]
FreqCode(f) ==
    CASE f \in {"M", "m", "MS", "ms", "ME"} -> "M"
      [] f \in {"D", "d"} -> "D"
      [] f \in {"W", "w"} -> "W"
      [] OTHER -> "H"

MonthOf(d) == d \div MonthLen
MonthEndOf(m) == m * MonthLen + (MonthLen - 1)
IsMonthEnd(d) == d = MonthEndOf(MonthOf(d))

\* d + pd.offsets.MonthEnd(n): a positive n applied to a date that is not a
\* month end spends one step to reach the end of the current month.
AddMonthEnd(d, n) ==
    IF n > 0 /\ ~IsMonthEnd(d)
    THEN MonthEndOf(MonthOf(d) + n - 1)
    ELSE MonthEndOf(MonthOf(d) + n)

\* d + pd.DateOffset(days=n)
AddDays(d, n) == d + n

\* d + (MonthEnd(n) if self.freq == "M" else DateOffset(days=n))
AddOffset(freq, d, n) ==
    IF freq = "M" THEN AddMonthEnd(d, n) ELSE AddDays(d, n)

\* self.one_ts_offset (lines 20-22)
one_ts_offset(d) == AddOffset(FreqCode(params.freq), d, 1)

\* self.prediction_length_offset (lines 23-27)
prediction_length_offset(d) == AddOffset(FreqCode(params.freq), d, params.prediction_length)

\* Mutant of stride_offset: the cursor is left where it is.
StrideNotApplied(d) == d

\* stride_offset (lines 67-71)
stride_offset(d) == AddOffset(FreqCode(params.freq), d, stride)

(***************************************************************************)
(* DataFrame helpers.                                                      *)
(***************************************************************************)
RECURSIVE Insert(_, _)
Insert(s, x) ==
    IF s = <<>> THEN <<x>>
    ELSE IF x < Head(s) THEN <<x>> \o s
    ELSE <<Head(s)>> \o Insert(Tail(s), x)

\* df.sort_values(by=[date_col]): ascending by date
RECURSIVE SortValues(_)
SortValues(s) ==
    IF s = <<>> THEN <<>>
    ELSE Insert(SortValues(SubSeq(s, 1, Len(s) - 1)), s[Len(s)])

RECURSIVE SeqMax(_)
\* df[date_col].max()
SeqMax(s) ==
    IF Len(s) = 1 THEN s[1]
    ELSE LET m == SeqMax(Tail(s)) IN IF Head(s) > m THEN Head(s) ELSE m

\* Mutant of HistorySlice: the row at the cutoff is taken into the history.
HistorySliceInclusive(d, cur) ==
    LET UpTo(x) == x <= cur IN SelectSeq(d, UpTo)

\* df[df[date_col] < curr_date]
HistorySlice(d, cur) ==
    LET Before(x) == x < cur IN SelectSeq(d, Before)

\* Mutant of ActualSlice: the interval is closed at cursor + horizon.
ActualSliceClosed(d, cur) ==
    LET In(x) == x >= cur /\ x <= prediction_length_offset(cur) IN SelectSeq(d, In)

\* df[(df[date_col] >= curr_date) & (df[date_col] < curr_date + prediction_length_offset)]
ActualSlice(d, cur) ==
    LET In(x) == x >= cur /\ x < prediction_length_offset(cur) IN SelectSeq(d, In)

\* Mutant of LoopCond: the comparison is strict.
LoopCondStrict == prediction_length_offset(curr_date) < one_ts_offset(end_date)

\* while curr_date + prediction_length_offset <= end_date + one_ts_offset
LoopCond == prediction_length_offset(curr_date) <= one_ts_offset(end_date)

MetricSupported(m) == m \in SupportedMetrics

\* The tuple built from the dict that calculate_metrics returns (lines 96-106);
\* metric_value, forecast, actual and model_pickle are opaque.
Row(g, d, m) == [group_id |-> g, backtest_window_start_date |-> d, metric_name |-> m]

\* The dict that the base calculate_metrics returns (lines 174-180).
MetricsDict(cur) ==
    [kind |-> "dict", recs |-> <<[curr_date |-> cur, metric_name |-> params.metric]>>]

RECURSIVE Records(_, _)
Records(cur, k) ==
    IF k = 0 THEN <<>>
    ELSE Records(cur, k - 1) \o <<Row(k, cur, params.metric)>>

\* What an overriding calculate_metrics returns: a list of result tuples, one
\* per group scored in the window (MaxFan groups, or none), or a value that
\* is neither a dict nor a list (here one result tuple not wrapped in a list).
OverrideMetrics(kind, cur, k) == [kind |-> kind, recs |-> Records(cur, k)]
OverrideReturns(cur) ==
    {OverrideMetrics("list", cur, k) : k \in {0, MaxFan}} \cup {OverrideMetrics("other", cur, 1)}

Columns ==
    <<"group_id", "backtest_window_start_date", "metric_name", "metric_value",
      "forecast", "actual", "model_pickle">>

\* pd.DataFrame(results, columns=[...])
DataFrame(rows) == [columns |-> Columns, rows |-> rows]

(***************************************************************************)
(* Initial state: a constructed regressor (__init__, lines 17-27) that has  *)
(* not been called yet; the arguments are chosen when backtest is called.  *)
(***************************************************************************)
\* func_create_endpoint has not been called.
EndpointIdle ==
    /\ ep_pc = "idle"
    /\ ep_r = [status_code |-> 0, pending_config |-> FALSE]
    /\ ep_re = 0
    /\ retry = FALSE
    /\ total_wait = 0

\* The caller's rows are in ascending or in descending date order, one row
\* per date: the table holds one series, keyed by its date column.
Monotone(t) ==
    \/ \A i, j \in DOMAIN t : i < j => t[i] < t[j]
    \/ \A i, j \in DOMAIN t : i < j => t[i] > t[j]

\* The tables backtest is called with: at least one row, at most MaxRows.
SeriesTables == {t \in UNION {[1..n -> Dates] : n \in 1..MaxRows} : Monotone(t)}

Init ==
    /\ callerDf = <<>>
    /\ passedDf = <<>>
    /\ start = 0
    /\ strideArg = None
    /\ params \in [freq : Freqs, prediction_length : Horizons, metric : MetricKinds,
                   stride : {None} \cup {Some(s) : s \in Strides}]
    /\ overridden \in BOOLEAN
    /\ pc = "call"
    /\ stride = 0
    /\ df = <<>>
    /\ end_date = 0
    /\ curr_date = 0
    /\ results = <<>>
    /\ hist_df = <<>>
    /\ actuals_df = <<>>
    /\ metrics = [kind |-> "unset", recs |-> <<>>]
    /\ res_df = [columns |-> <<>>, rows |-> <<>>]
    /\ error = "none"
    /\ predictCalls = <<>>
    /\ evaluated = <<>>
    /\ EndpointIdle

(***************************************************************************)
(* backtest, lines 65-77: the stride, the sorted copy, end_date, the       *)
(* first cursor and the empty results buffer.                              *)
(***************************************************************************)
\* if stride is None: stride = int(self.params.get("stride", 7))
ResolveStride(sa) ==
    IF sa = None
    THEN (IF params.stride = None THEN DefaultStride ELSE params.stride[1])
    ELSE sa[1]

\* The stride argument is given, or left out for params["stride"] to decide.
StrideArgs == IF params.stride = None THEN {None} \cup {Some(s) : s \in Strides} ELSE {None}

\* Mutant of SortedCopy: the caller's table is sorted in place.
SortedInPlace(t) == [caller |-> SortValues(t), local |-> SortValues(t)]

\* df = df.copy().sort_values(by=[date_col]): the local name is bound to a
\* sorted copy, the caller's object keeps its rows and their order.
SortedCopy(t) == [caller |-> t, local |-> SortValues(t)]

Backtest ==
    /\ pc = "call"
    /\ \E t \in SeriesTables, st \in 0..MaxStart, sa \in StrideArgs :
          /\ passedDf' = t
          /\ callerDf' = SortedCopy(t).caller
          /\ start' = st
          /\ strideArg' = sa
          /\ stride' = ResolveStride(sa)
          /\ df' = SortedCopy(t).local
          /\ end_date' = SeqMax(SortedCopy(t).local)
          /\ curr_date' = one_ts_offset(st)
    /\ pc' = "test"
    /\ results' = <<>>
    /\ UNCHANGED <<endpointVars, params, overridden, error, hist_df, actuals_df, metrics, res_df,
                   predictCalls, evaluated>>

(***************************************************************************)
(* Lines 79-93: the loop condition holds; slice and call calculate_metrics.*)
(***************************************************************************)
EnterWindow ==
    /\ pc = "test"
    /\ LoopCond
    /\ stride <= 0 => Len(predictCalls) < MaxLoops
    /\ hist_df' = HistorySlice(df, curr_date)
    /\ actuals_df' = ActualSlice(df, curr_date)
    /\ pc' = "predict"
    /\ UNCHANGED <<endpointVars, inputs, error, stride, df, end_date, curr_date, results, metrics, res_df,
                   predictCalls, evaluated>>

(***************************************************************************)
(* calculate_metrics, line 139: self.predict(hist_df, val_df) returns or   *)
(* raises.                                                                 *)
(***************************************************************************)
PredictCall == [curr_date |-> curr_date, hist |-> hist_df, actual |-> actuals_df]

Predict ==
    /\ pc = "predict"
    /\ predictCalls' = Append(predictCalls, PredictCall)
    /\ pc' = "metric"
    /\ UNCHANGED <<endpointVars, inputs, error, stride, df, end_date, curr_date, results, hist_df, actuals_df,
                   metrics, res_df, evaluated>>

\* Mutant of PredictFails: the exception is caught and the window skipped.
PredictFailsSwallowed ==
    /\ pc = "predict"
    /\ predictCalls' = Append(predictCalls, PredictCall)
    /\ error' = "predict"
    /\ metrics' = [kind |-> "list", recs |-> <<>>]
    /\ pc' = "extend"
    /\ UNCHANGED <<endpointVars, inputs, stride, df, end_date, curr_date, results, hist_df, actuals_df,
                   res_df, evaluated>>

PredictFails ==
    /\ pc = "predict"
    /\ predictCalls' = Append(predictCalls, PredictCall)
    /\ pc' = "raised"
    /\ error' = "predict"
    /\ UNCHANGED <<endpointVars, inputs, stride, df, end_date, curr_date, results, hist_df, actuals_df,
                   metrics, res_df, evaluated>>

(***************************************************************************)
(* calculate_metrics, lines 141-180: the metric is selected after predict  *)
(* has returned; an unsupported kind raises.                               *)
(***************************************************************************)
MetricUnsupported ==
    /\ pc = "metric"
    /\ ~MetricSupported(params.metric)
    /\ pc' = "raised"
    /\ error' = "metric"
    /\ UNCHANGED <<endpointVars, inputs, stride, df, end_date, curr_date, results, hist_df, actuals_df,
                   metrics, res_df, predictCalls, evaluated>>

ReturnDict ==
    /\ pc = "metric"
    /\ ~overridden
    /\ MetricSupported(params.metric)
    /\ metrics' = MetricsDict(curr_date)
    /\ evaluated' = Append(evaluated, MetricsDict(curr_date))
    /\ pc' = "extend"
    /\ UNCHANGED <<endpointVars, inputs, error, stride, df, end_date, curr_date, results, hist_df, actuals_df,
                   res_df, predictCalls>>

ReturnOverride ==
    /\ pc = "metric"
    /\ overridden
    /\ MetricSupported(params.metric)
    /\ \E m \in OverrideReturns(curr_date) :
          /\ metrics' = m
          /\ evaluated' = Append(evaluated, m)
    /\ pc' = "extend"
    /\ UNCHANGED <<endpointVars, inputs, error, stride, df, end_date, curr_date, results, hist_df, actuals_df,
                   res_df, predictCalls>>

(***************************************************************************)
(* Lines 95-111: extend results by the dict's tuple or by the list, and    *)
(* advance the cursor.                                                     *)
(***************************************************************************)
\* Mutant of Extended: results is assigned instead of extended.
ExtendedOverwritten(res, m) ==
    IF m.kind = "dict"
    THEN <<Row(GroupId, m.recs[1].curr_date, m.recs[1].metric_name)>>
    ELSE IF m.kind = "list" THEN m.recs
    ELSE res

Extended(res, m) ==
    IF m.kind = "dict"
    THEN res \o <<Row(GroupId, m.recs[1].curr_date, m.recs[1].metric_name)>>
    ELSE IF m.kind = "list" THEN res \o m.recs
    ELSE res

Extend ==
    /\ pc = "extend"
    /\ results' = Extended(results, metrics)
    /\ curr_date' = stride_offset(curr_date)
    /\ pc' = "test"
    /\ UNCHANGED <<endpointVars, inputs, error, stride, df, end_date, hist_df, actuals_df, metrics, res_df,
                   predictCalls, evaluated>>

(***************************************************************************)
(* Lines 79, 113-124: the loop condition fails; build and return res_df.   *)
(***************************************************************************)
Finish ==
    /\ pc = "test"
    /\ ~LoopCond
    /\ res_df' = DataFrame(results)
    /\ pc' = "returned"
    /\ UNCHANGED <<endpointVars, inputs, error, stride, df, end_date, curr_date, results, hist_df, actuals_df,
                   metrics, predictCalls, evaluated>>

Next ==
    \/ Backtest
    \/ EnterWindow
    \/ Predict
    \/ PredictFails
    \/ MetricUnsupported
    \/ ReturnDict
    \/ ReturnOverride
    \/ Extend
    \/ Finish

Spec == Init /\ [][Next]_vars

\* The call is made and the interpreter runs it to its end: no step waits on
\* anything but predict, which is taken to return or raise.
FairSpec == Spec /\ WF_vars(Next)

(***************************************************************************)
(* func_create_endpoint (01_timegpt_load_inference.py, lines 294-345).     *)
(***************************************************************************)
\* r.status_code == 200
HttpOk == 200

\* a status code other than 200
HttpError == HttpOk + 300

StatusCodes == {HttpOk, HttpError}

\* seconds = 10; time.sleep(10)
seconds == 10

\* if total_wait < 6000
WaitLimit == 6000

\* what a GET of the endpoint answers
Responses == [status_code : StatusCodes, pending_config : BOOLEAN]

\* func_create_endpoint is called once; the regressor is not in use.
EndpointInit ==
    /\ callerDf = <<>>
    /\ passedDf = <<>>
    /\ start = 0
    /\ strideArg = None
    /\ params = [freq |-> "D", prediction_length |-> 1, metric |-> "rmse", stride |-> None]
    /\ overridden = FALSE
    /\ pc = "call"
    /\ stride = 0
    /\ df = <<>>
    /\ end_date = 0
    /\ curr_date = 0
    /\ results = <<>>
    /\ hist_df = <<>>
    /\ actuals_df = <<>>
    /\ metrics = [kind |-> "unset", recs |-> <<>>]
    /\ res_df = [columns |-> <<>>, rows |-> <<>>]
    /\ error = "none"
    /\ predictCalls = <<>>
    /\ evaluated = <<>>
    /\ ep_pc = "get"
    /\ ep_r = [status_code |-> 0, pending_config |-> FALSE]
    /\ ep_re = 0
    /\ retry = FALSE
    /\ total_wait = 0

\* Lines 298-304: the GET answers RESOURCE_DOES_NOT_EXIST; the endpoint is
\* created with a POST.
CreateEndpoint ==
    /\ ep_pc = "get"
    /\ \E c \in StatusCodes, p \in StatusCodes :
          /\ ep_r' = [status_code |-> c, pending_config |-> FALSE]
          /\ ep_re' = p
    /\ ep_pc' = "assert"
    /\ UNCHANGED <<backtestVars, retry, total_wait>>

\* Lines 298-299, 305-320: the endpoint exists; its config is updated with a
\* PUT and the polling loop is set up.
UpdateConfig ==
    /\ ep_pc = "get"
    /\ \E c \in StatusCodes, p \in StatusCodes :
          /\ ep_r' = [status_code |-> c, pending_config |-> FALSE]
          /\ ep_re' = p
    /\ retry' = TRUE
    /\ total_wait' = 0
    /\ ep_pc' = "loop"
    /\ UNCHANGED backtestVars

\* Lines 321-325: the GET of an iteration answers a status other than 200 and
\* the assert raises.
PollRejected ==
    /\ ep_pc = "loop"
    /\ retry
    /\ \E a \in Responses :
          /\ a.status_code # HttpOk
          /\ ep_r' = a
    /\ ep_pc' = "raised"
    /\ UNCHANGED <<backtestVars, ep_re, retry, total_wait>>

\* if total_wait < 6000
KeepWaiting(w) == w < WaitLimit

\* Lines 321-335: the config is still pending and the limit is not reached:
\* sleep and add the seconds slept.
PollPendingWait ==
    /\ ep_pc = "loop"
    /\ retry
    /\ ep_r' = [status_code |-> HttpOk, pending_config |-> TRUE]
    /\ KeepWaiting(total_wait)
    /\ total_wait' = total_wait + seconds
    /\ UNCHANGED <<backtestVars, ep_pc, ep_re, retry>>

\* Lines 321-330, 336-338: the config is still pending and the limit is
\* reached: stop.
PollPendingStop ==
    /\ ep_pc = "loop"
    /\ retry
    /\ ep_r' = [status_code |-> HttpOk, pending_config |-> TRUE]
    /\ ~KeepWaiting(total_wait)
    /\ retry' = FALSE
    /\ UNCHANGED <<backtestVars, ep_pc, ep_re, total_wait>>

\* Lines 321-327, 339-341: pending_config is not in the answer.
PollInPlace ==
    /\ ep_pc = "loop"
    /\ retry
    /\ ep_r' = [status_code |-> HttpOk, pending_config |-> FALSE]
    /\ retry' = FALSE
    /\ UNCHANGED <<backtestVars, ep_pc, ep_re, total_wait>>

\* Line 321: retry is false, the loop is left.
LeaveLoop ==
    /\ ep_pc = "loop"
    /\ ~retry
    /\ ep_pc' = "assert"
    /\ UNCHANGED <<backtestVars, ep_r, ep_re, retry, total_wait>>

\* Lines 343-345: assert re.status_code == 200
FinalAssert ==
    /\ ep_pc = "assert"
    /\ ep_pc' = (IF ep_re = HttpOk THEN "done" ELSE "raised")
    /\ UNCHANGED <<backtestVars, ep_r, ep_re, retry, total_wait>>

EndpointNext ==
    \/ CreateEndpoint
    \/ UpdateConfig
    \/ PollRejected
    \/ PollPendingWait
    \/ PollPendingStop
    \/ PollInPlace
    \/ LeaveLoop
    \/ FinalAssert

EndpointSpec == EndpointInit /\ [][EndpointNext]_vars

\* Every request is answered and every sleep ends.
EndpointFairSpec == EndpointSpec /\ WF_vars(EndpointNext)

(***************************************************************************)
(* Properties.                                                             *)
(***************************************************************************)
\* The number of windows the run has handed to predict.
Windows == Len(predictCalls)

InSeq(x, s) == \E i \in DOMAIN s : s[i] = x

\* floor(n / s) + 1 when that is non-negative, else zero
FloorCount(n, s) == LET v == (n \div s) + 1 IN IF v >= 0 THEN v ELSE 0

\* A returned run over a daily series whose first date is start.
DailyRun ==
    /\ pc = "returned"
    /\ FreqCode(params.freq) = "D"
    /\ stride > 0
    /\ df[1] = start

\* C1 as stated: a daily run from start to end with horizon H and stride S > 0
\* evaluates floor((end - (start + 1) - H) / S) + 1 windows when that is
\* non-negative, else none.
C1_CountAsStated ==
    DailyRun /\ params.prediction_length > 0 =>
        Windows = FloorCount(end_date - (start + 1) - params.prediction_length, stride)

\* C1 (amended): a daily run from start to end with horizon H and stride S > 0
\* that returns has evaluated floor((end - start - H) / S) + 1 windows when
\* that is non-negative, else none: the loop admits the cursor start + 1 + k*S
\* as long as it is at most end + 1 - H.
C1_WindowCount ==
    DailyRun =>
        Windows = FloorCount(end_date - start - params.prediction_length, stride)

C1_Witness ==
    /\ DailyRun
    /\ Windows >= 2
    /\ (end_date - start - params.prediction_length) % stride = 0

PositiveConfig == stride > 0 /\ params.prediction_length > 0

\* cursor + horizon of a window
Boundary(c) == prediction_length_offset(c.curr_date)

\* C2 as stated: for a positive stride and horizon, a row dated exactly
\* cursor + horizon is not in the window's actual slice, and is in the next
\* window's history whenever there is a next window.
C2_BoundaryAsStated ==
    PositiveConfig =>
        \A i \in DOMAIN predictCalls :
            InSeq(Boundary(predictCalls[i]), df) =>
                /\ ~InSeq(Boundary(predictCalls[i]), predictCalls[i].actual)
                /\ (i + 1 \in DOMAIN predictCalls =>
                        InSeq(Boundary(predictCalls[i]), predictCalls[i + 1].hist))

\* C2 (amended): for a positive stride and horizon, a row dated exactly
\* cursor + horizon is never in the window's actual slice; when there is a next
\* window the row is in its history exactly when the horizon is shorter than
\* the stride (with horizon >= stride the next cutoff is at or before the row).
C2_HalfOpenBoundary ==
    PositiveConfig =>
        \A i \in DOMAIN predictCalls :
            InSeq(Boundary(predictCalls[i]), df) =>
                /\ ~InSeq(Boundary(predictCalls[i]), predictCalls[i].actual)
                /\ (i + 1 \in DOMAIN predictCalls =>
                        (InSeq(Boundary(predictCalls[i]), predictCalls[i + 1].hist)
                            <=> params.prediction_length < stride))

C2_Witness ==
    /\ PositiveConfig
    /\ \E i \in DOMAIN predictCalls :
          /\ i + 1 \in DOMAIN predictCalls
          /\ InSeq(Boundary(predictCalls[i]), df)
          /\ InSeq(Boundary(predictCalls[i]), predictCalls[i + 1].hist)

\* C3 as stated: with an unsupported metric kind backtest raises before
\* predict is invoked for any window, and it never returns a table, a series
\* with no window included.
C3_RejectedBeforeAnyWindow ==
    ~MetricSupported(params.metric) => (predictCalls = <<>> /\ pc # "returned")

\* C4 as stated: backtest never works on a window with a non-positive stride or
\* a non-positive prediction_length.
C4_NonPositiveRejected ==
    pc \in {"predict", "metric", "extend"} =>
        (stride > 0 /\ params.prediction_length > 0)

\* start_date + horizon > end_date
StartTooLate == prediction_length_offset(start) > end_date

\* The table of a run that evaluated nothing: no rows, the seven columns.
EmptyTable == [columns |-> Columns, rows |-> <<>>]

NoWindowRun ==
    /\ predictCalls = <<>>
    /\ error = "none"
    /\ pc \in {"test", "returned"}
    /\ (pc = "test" => ~LoopCond)
    /\ (pc = "returned" => res_df = EmptyTable)

\* C5 as stated: if start_date + horizon > end_date the run evaluates no
\* window, never calls predict, raises nothing and returns the empty table with
\* the seven columns; if start_date + horizon <= end_date it evaluates at least
\* one window.
C5_EmptyWindowCase ==
    pc # "call" =>
        /\ (StartTooLate => NoWindowRun)
        /\ (~StartTooLate /\ pc \in {"returned", "raised"} => Windows >= 1)

\* C5 for a positive prediction_length.
C5_EmptyWindowCasePositive ==
    params.prediction_length > 0 => C5_EmptyWindowCase

C5_Witness ==
    /\ pc = "returned"
    /\ params.prediction_length > 0
    /\ StartTooLate
    /\ res_df = EmptyTable

Finished == pc \in {"returned", "raised"}

\* C6: with a positive stride the cursor strictly increases at every iteration,
\* the loop bound end_date + one_ts_offset never changes once it is set, and
\* the run ends (it returns, or an exception leaves it) after finitely many
\* windows.
C6_Terminates ==
    /\ [][stride > 0 /\ pc = "extend" => curr_date' > curr_date]_vars
    /\ [][pc # "call" => one_ts_offset(end_date)' = one_ts_offset(end_date)]_vars
    /\ <>(Finished \/ (pc # "call" /\ stride <= 0))

C6_Witness ==
    /\ pc = "returned"
    /\ stride > 0
    /\ Windows >= 2

\* window start dates of a sequence of rows are non-decreasing
Ascending(rows) ==
    \A i, j \in DOMAIN rows :
        i < j => rows[i].backtest_window_start_date <= rows[j].backtest_window_start_date

\* Every window handed to predict before the latest call has been evaluated
\* and its records are in results.
PreviousAppended ==
    /\ Len(evaluated) >= Len(predictCalls) - 1
    /\ \A i \in 1..(Len(predictCalls) - 1) :
          evaluated[i].kind \in {"dict", "list"} =>
              \A k \in DOMAIN evaluated[i].recs :
                  \E r \in DOMAIN results :
                      results[r].backtest_window_start_date = predictCalls[i].curr_date

\* C7 as stated: windows are evaluated in strictly increasing cursor order, the
\* predict call of a window never begins before the records of the window
\* before it are appended, and the rows of the returned table are in ascending
\* order of window start date.
C7_SequentialAsStated ==
    /\ \A i, j \in DOMAIN predictCalls :
          i < j => predictCalls[i].curr_date < predictCalls[j].curr_date
    /\ PreviousAppended
    /\ (pc = "returned" => Ascending(res_df.rows))

\* C7 for a positive stride.
C7_SequentialPositiveStride == stride > 0 => C7_SequentialAsStated

\* C8: a failing predict call ends the run with the exception: no table is
\* returned, nothing more is evaluated, and predict is never called a second
\* time for a window (the calls exceed the completed evaluations by at most the
\* one in progress).
NoTable == res_df.columns = <<>> /\ pc # "returned"

C8_PredictFailureFatal ==
    /\ [](error = "predict" => pc = "raised" /\ NoTable)
    /\ [](Len(predictCalls) <= Len(evaluated) + 1)
    /\ [][error = "predict" => UNCHANGED <<pc, predictCalls, evaluated, results, res_df>>]_vars

C8_Witness ==
    /\ error = "predict"
    /\ Windows >= 2
    /\ results # <<>>

RECURSIVE TotalRecords(_)
\* the number of records the evaluations returned, whatever their type
TotalRecords(evs) ==
    IF evs = <<>> THEN 0 ELSE Len(Head(evs).recs) + TotalRecords(Tail(evs))

\* the rows an evaluation is to contribute when its records are a dict or a list
RowsOf(m) ==
    IF m.kind = "dict"
    THEN <<Row(GroupId, m.recs[1].curr_date, m.recs[1].metric_name)>>
    ELSE IF m.kind = "list" THEN m.recs ELSE <<>>

RECURSIVE AllRows(_)
AllRows(evs) ==
    IF evs = <<>> THEN <<>> ELSE RowsOf(Head(evs)) \o AllRows(Tail(evs))

Appended == pc # "extend"

Count(t, d) == Cardinality({i \in DOMAIN t : t[i] = d})

\* the window predict has just been given
LastCall == predictCalls[Len(predictCalls)]

\* C10: in every window handed to predict (checked as predict receives it) the
\* history holds exactly the rows of the series dated before the cutoff and the
\* actual slice exactly the rows dated in [cutoff, cutoff + horizon); no row is
\* in both.
C10_NoLookAhead ==
    pc = "metric" =>
        \A d \in Dates :
            /\ Count(LastCall.hist, d) =
                   (IF d < LastCall.curr_date THEN Count(callerDf, d) ELSE 0)
            /\ Count(LastCall.actual, d) =
                   (IF d >= LastCall.curr_date /\ d < Boundary(LastCall)
                    THEN Count(callerDf, d) ELSE 0)
            /\ ~(InSeq(d, LastCall.hist) /\ InSeq(d, LastCall.actual))

C10_Witness ==
    /\ pc = "metric"
    /\ Windows >= 2
    /\ LastCall.hist # <<>>
    /\ LastCall.actual # <<>>

\* C11: backtest only reads the caller's table: during and after the run,
\* returned or raised, the table has the rows it was passed with, in the same
\* order; the run never writes the regressor it is called on (params, the
\* concrete class), and it starts from its own cursor and its own empty results
\* buffer, so runs have no mutable state in common.
C11_ReadOnlyInput ==
    /\ [](pc # "call" => callerDf = passedDf)
    /\ [][passedDf' = passedDf \/ pc = "call"]_vars
    /\ [][params' = params /\ overridden' = overridden]_vars
    /\ [][pc = "call" =>
            /\ results' = <<>>
            /\ curr_date' = one_ts_offset(start')
            /\ predictCalls' = <<>> /\ evaluated' = <<>>]_vars

C11_Witness ==
    /\ pc \in {"returned", "raised"}
    /\ df # callerDf
    /\ Len(callerDf) >= 2
    /\ results # <<>>

\* ten minutes, in seconds
TenMinutes == 10 * 60

\* the polling loop is over
PollingOver == ep_pc \in {"assert", "done", "raised"}

\* C12 as stated: polling goes on only while less than ten minutes (600
\* seconds, 60 sleeps of 10 seconds) have been waited: the total waited never
\* exceeds ten minutes, and a loop that stops with the config still pending has
\* waited exactly ten minutes.
C12_StopsAtTenMinutes ==
    /\ total_wait <= TenMinutes
    /\ (ep_pc = "loop" /\ ~retry /\ ep_r.pending_config => total_wait = TenMinutes)

\* C12 with the limit the condition is written with: polling goes on only
\* while less than WaitLimit seconds have been waited, it stops at once when
\* pending_config is absent or the status is not 200, and the loop ends.
C12_StopsAtWaitLimit ==
    /\ [](total_wait <= WaitLimit)
    /\ [](ep_pc = "loop" /\ ~retry /\ ep_r.pending_config => total_wait = WaitLimit)
    /\ [][ep_pc = "loop" /\ retry /\ ~ep_r'.pending_config => retry' = FALSE \/ ep_pc' = "raised"]_vars
    /\ [][ep_pc = "loop" /\ ep_r'.status_code # HttpOk => ep_pc' = "raised"]_vars
    /\ <>PollingOver

C12_Witness ==
    /\ ep_pc = "loop"
    /\ ~retry
    /\ ep_r.pending_config
    /\ total_wait = WaitLimit

====
